---- MODULE Spec2Model ----
(***************************************************************************)
(* Two leaves of the product are modelled here.                            *)
(*                                                                         *)
(*  - The alert-list selectors (uiQueryParams, encodedSearchBarDateRange,  *)
(*    apiQueryParams), pure functions of state.location.  A string is a    *)
(*    sequence of tokens; the separators "?", "&", "=" and the escapes are *)
(*    tokens of their own, a parameter name is one token.                  *)
(*                                                                         *)
(*  - The CSV export job executor (executeJob), an async function.  One    *)
(*    action is one run-to-completion piece of it: the code between two    *)
(*    awaits, started by the settling of the promise it awaited.           *)
(***************************************************************************)
EXTENDS Integers, Sequences, FiniteSets

(***************************************************************************)
(* Bounds of the model.                                                    *)
(***************************************************************************)
\* the most "&"-separated segments in a query string
MaxSegs == 2

VARIABLES
    \* ---- alert list ----
    location,       \* state.location
    uiParams,       \* what uiQueryParams(state) returned for this state
    apiParams,      \* what apiQueryParams(state) returned for this state
    \* ---- executeJob ----
    config,         \* what reporting.getConfig() holds
    pc,             \* where the one call of executeJob stands
    job,            \* the job document handed to executeJob
    token,          \* the cancellation token handed to executeJob
    cancelled,      \* the tokens that have been cancelled
    cancelledAt,    \* where executeJob stood when its token was cancelled
    log,            \* what was written to the logger
    trace,          \* the steps executeJob has taken, in order
    fakeRequest,    \* the synthetic request
    reads,          \* the four configuration reads
    settleOrder,    \* the reads in the order they settled
    formatsMapP,    \* the promise of getFormatsMap(uiSettingsClient)
    uiSettingsP,    \* the promise of getUiSettings(uiSettingsClient)
    csvArgs,        \* the argument of generateCsv
    error,          \* what executeJob rejected with
    result          \* what executeJob returned

selVars == <<location, uiParams, apiParams>>

jobVars == <<config, pc, job, token, cancelled, cancelledAt, log, trace, fakeRequest,
             reads, settleOrder, formatsMapP, uiSettingsP, csvArgs, error, result>>

vars == <<selVars, jobVars>>

(***************************************************************************)
(* Alert-list selectors                                                    *)
(***************************************************************************)

\* the value of a property that is not there
Undefined == <<"<undefined>">>

\* state.location before the first URL change
NoLocation == [present |-> FALSE, search |-> <<>>]

\* the six keys of AlertingIndexUIQueryParams, in the order of the loop
keys == <<"page_size", "page_index", "selected_alert", "query", "date_range", "filters">>

KeyNames == {keys[i] : i \in 1..Len(keys)}

\* String.prototype.slice(1)
Slice1(s) == IF Len(s) <= 1 THEN <<>> ELSE SubSeq(s, 2, Len(s))

\* the index of the first occurrence of tok in s, 0 when there is none
\* (String.prototype.indexOf, with 0 for -1)
IndexOf(s, tok) ==
    IF \E i \in 1..Len(s) : s[i] = tok
    THEN CHOOSE i \in 1..Len(s) : s[i] = tok /\ \A j \in 1..(i - 1) : s[j] # tok
    ELSE 0

\* String.prototype.split(sep)
RECURSIVE Split(_, _)
Split(s, sep) ==
    LET i == IndexOf(s, sep)
    IN  IF i = 0 THEN <<s>>
        ELSE <<SubSeq(s, 1, i - 1)>> \o Split(SubSeq(s, i + 1, Len(s)), sep)

\* querystring.unescape of one token: "+" is a space, a percent escape is the
\* character it names
UnescapeToken(tok) ==
    CASE tok = "+" -> " "
      [] tok = "%3D" -> "="
      [] tok = "page%5Fsize" -> "page_size"
      [] OTHER -> tok

Unescape(s) == [i \in 1..Len(s) |-> UnescapeToken(s[i])]

\* one step of querystring.parse: the object after the segment seg
ParseSegment(obj, seg) ==
    LET idx  == IndexOf(seg, "=")
        kstr == IF idx = 0 THEN seg ELSE SubSeq(seg, 1, idx - 1)
        vstr == IF idx = 0 THEN <<>> ELSE SubSeq(seg, idx + 1, Len(seg))
        k    == Unescape(kstr)
        v    == Unescape(vstr)
    IN  IF k \notin DOMAIN obj
        THEN [x \in (DOMAIN obj) \cup {k} |->
                 IF x = k THEN [isArray |-> FALSE, vals |-> <<v>>] ELSE obj[x]]
        ELSE [obj EXCEPT ![k] = [isArray |-> TRUE, vals |-> Append(obj[k].vals, v)]]

RECURSIVE ParseSegments(_, _)
ParseSegments(obj, segs) ==
    IF segs = <<>> THEN obj
    ELSE ParseSegments(ParseSegment(obj, Head(segs)), Tail(segs))

\* querystring.parse(qs): a map from each name to a string or to the array of
\* the values given for it
QuerystringParse(qs) ==
    IF Len(qs) = 0 THEN [x \in {} |-> [isArray |-> FALSE, vals |-> <<>>]]
    ELSE ParseSegments([x \in {} |-> [isArray |-> FALSE, vals |-> <<>>]], Split(qs, "&"))

\* a mistaken choice: the first of the values given for a repeated key
FirstValue(value) == value.vals[1]

\* the value kept for a key: the string, or the last element of the array
LastValue(value) ==
    IF ~value.isArray THEN value.vals[1] ELSE value.vals[Len(value.vals)]

\* the loop of uiQueryParams over `keys`, from the i-th key on
RECURSIVE CopyKeys(_, _, _)
CopyKeys(data, query, i) ==
    IF i > Len(keys) THEN data
    ELSE LET key == keys[i]
             has == <<key>> \in DOMAIN query
             next ==
                 IF ~has THEN data
                 ELSE [x \in (DOMAIN data) \cup {key} |->
                          IF x = key THEN LastValue(query[<<key>>]) ELSE data[x]]
         IN CopyKeys(next, query, i + 1)

uiQueryParams(loc) ==
    LET data == [x \in {} |-> <<>>]
    IN  IF loc.present
        THEN CopyKeys(data, QuerystringParse(Slice1(loc.search)), 1)
        ELSE data

\* rison-node encode of an object whose values are identifiers: the keys in
\* sorted order, "(" k ":" v "," ... ")"
RECURSIVE RisonPairs(_, _)
RisonPairs(obj, ks) ==
    IF ks = <<>> THEN <<>>
    ELSE (IF Len(ks) = 1 THEN <<Head(ks), ":", obj[Head(ks)]>>
          ELSE <<Head(ks), ":", obj[Head(ks)], ",">>) \o RisonPairs(obj, Tail(ks))

encode(obj, sortedKeys) == <<"(">> \o RisonPairs(obj, sortedKeys) \o <<")">>

Get(data, key) == IF key \in DOMAIN data THEN data[key] ELSE Undefined

\* a mistaken selector: no default when the URL gives no date_range
encodedSearchBarDateRangeNoDefault(loc) == Get(uiQueryParams(loc), "date_range")

encodedSearchBarDateRange(loc) ==
    LET dateRange == Get(uiQueryParams(loc), "date_range")
    IN  IF dateRange = Undefined
        THEN encode([from |-> "now-24h", to |-> "now"], <<"from", "to">>)
        ELSE dateRange

apiQueryParams(loc) ==
    LET ui == uiQueryParams(loc)
    IN  [page_size  |-> Get(ui, "page_size"),
         page_index |-> Get(ui, "page_index"),
         query      |-> Get(ui, "query"),
         date_range |-> encodedSearchBarDateRange(loc),
         filters    |-> Get(ui, "filters")]

\* ---- the URLs the model visits ----

NameTokens == KeyNames \cup {"page%5Fsize", "sort"}

\* what may follow the name in a segment
Tails == {<<>>, <<"=">>, <<"=", "1">>, <<"=", "2">>, <<"=", "1", "=", "%3D", "+">>}

Segments == {<<n>> \o t : n \in NameTokens, t \in Tails} \cup {<<>>, <<"=", "1">>}

RECURSIVE Join(_)
Join(segs) ==
    IF segs = <<>> THEN <<>>
    ELSE IF Len(segs) = 1 THEN Head(segs)
    ELSE Head(segs) \o <<"&">> \o Join(Tail(segs))

\* location.search of a browser location: empty, or "?" and the query
Searches ==
    {<<>>} \cup
    {<<"?">> \o Join(segs) : segs \in UNION {[1..n -> Segments] : n \in 0..MaxSegs}}

(***************************************************************************)
(* executeJob                                                              *)
(***************************************************************************)

\* a string-typed property that is not there
UndefinedStr == "<undefined>"

\* job.headers: missing, not a string, or the encrypted headers
HeaderValues == {UndefinedStr, "<object>", "cipher"}

\* typeof headers
TypeOf(h) ==
    CASE h = UndefinedStr -> "undefined"
      [] h = "<object>" -> "object"
      [] OTHER -> "string"

\* a mistaken test: only a missing value is turned away
HeadersPresent(headers) == headers # UndefinedStr

\* typeof headers !== 'string', negated
HeadersAreString(headers) == TypeOf(headers) = "string"

Jobs == [headers : HeaderValues,
         basePath : {UndefinedStr, "", "/s/sales"},
         indexPatternSavedObject : {"logs-*"}]

NoJob == [headers |-> UndefinedStr, basePath |-> UndefinedStr, indexPatternSavedObject |-> ""]

\* the cancellation tokens a worker may hand in
Tokens == {"tokenA", "tokenB"}

NoToken == "<none>"

Configs == [serverBasePath : {"", "/kbn"},
            useByteOrderMarkEncoding : BOOLEAN,
            checkForFormulas : {TRUE},
            maxSizeBytes : {"10mb"},
            scroll : {"30s"}]

CSV_BOM_CHARS == "\\ufeff"

\* ---- errors: an Error is its message, a sequence of strings ----

NoError == <<>>

MissingHeadersError == <<"Job headers are missing">>

\* what crypto.decrypt may reject with
DecryptErrors == {<<"Unsupported state or unable to authenticate data">>}

\* Error.prototype.toString
ToString(err) == <<"Error: ">> \o err

\* the message of the error thrown from the catch block of decryptHeaders, the
\* values put in the places of {encryptionKey} and {err}
FailedToDecrypt(err) ==
    <<"Failed to decrypt report job data. Please ensure that ",
      "xpack.reporting.encryptionKey",
      " is set and re-generate this report. ">> \o ToString(err)

BrowserTimezoneWarning ==
    <<"Kibana Advanced Setting \"", "dateFormat:tz",
      "\" is set to \"Browser\". Dates will be formatted as UTC to avoid ambiguity.">>

\* the result of crypto.decrypt(headers) when it resolves
Decrypted(headers) == <<"decrypted", headers>>

\* a mistaken fallback: only a missing basePath gives way to the server's
getBasePathNullish(basePath, serverBasePath) ==
    IF basePath = UndefinedStr THEN serverBasePath ELSE basePath

\* () => basePath || serverBasePath
getBasePath(basePath, serverBasePath) ==
    IF basePath = UndefinedStr \/ basePath = "" THEN serverBasePath ELSE basePath

NoRequest == [built |-> FALSE, headers |-> <<>>, getBasePath |-> ""]

\* ---- the configuration reads ----

SettingReads == {"csv:separator", "csv:quoteValues", "dateFormat:tz"}

ReadNames == {"fieldFormats"} \cup SettingReads

\* the order in which the three client.get calls are made
SettingCalls == <<"csv:separator", "csv:quoteValues", "dateFormat:tz">>

ReadValues(r) ==
    CASE r = "fieldFormats" -> {"formats"}
      [] r = "csv:separator" -> {","}
      [] r = "csv:quoteValues" -> {"true"}
      [] r = "dateFormat:tz" -> {"Browser", "UTC", "America/New_York"}

Unstarted == [status |-> "unstarted", value |-> ""]

Pending == [status |-> "pending", value |-> ""]

NoSettings == [separator |-> "", quoteValues |-> "", timezone |-> ""]

\* fieldFormatMapFactory(indexPatternSavedObject, fieldFormats)
fieldFormatMapFactory(indexPatternSavedObject, fieldFormats) ==
    <<indexPatternSavedObject, fieldFormats>>

\* the settings reads that have settled, in the order they settled
SettledSettings == SelectSeq(settleOrder, LAMBDA r : r \in SettingReads)

\* a mistaken binding: the three names are bound in the order the reads
\* complete
UiSettingsByCompletion(rd) ==
    LET done == SettledSettings \o
                SelectSeq(SettingCalls, LAMBDA r : \A i \in 1..Len(SettledSettings) :
                                                      SettledSettings[i] # r)
    IN  [separator   |-> rd[done[1]].value,
         quoteValues |-> rd[done[2]].value,
         timezone    |-> rd[done[3]].value]

\* const [separator, quoteValues, timezone] = await Promise.all([...]) and the
\* object returned: each name is bound by its place in the array of calls
UiSettingsOf(rd) ==
    [separator   |-> rd[SettingCalls[1]].value,
     quoteValues |-> rd[SettingCalls[2]].value,
     timezone    |-> rd[SettingCalls[3]].value]

\* a mistaken test: every zone but UTC is warned about
ShouldWarnNotUtc(timezone) == timezone # "UTC"

\* timezone === 'Browser'
ShouldWarn(timezone) == timezone = "Browser"

\* a mistaken wait: the first of the two to resolve lets executeJob go on
AnyConfigResolved(fm, us) == fm.status = "resolved" \/ us.status = "resolved"

\* await Promise.all([getFormatsMap(...), getUiSettings(...)]) resolves
AllConfigResolved(fm, us) == fm.status = "resolved" /\ us.status = "resolved"

NoCsvArgs == [called |-> FALSE, cancellationToken |-> NoToken, formatsMap |-> <<>>,
              settings |-> [separator |-> "", quoteValues |-> "", timezone |-> "",
                            checkForFormulas |-> FALSE, maxSizeBytes |-> "",
                            scroll |-> ""]]

\* a mistaken call: the token is left out
GenerateCsvArgsNoToken(fm, us) ==
    [called |-> TRUE, cancellationToken |-> NoToken, formatsMap |-> fm,
     settings |-> [separator |-> us.separator, quoteValues |-> us.quoteValues,
                   timezone |-> us.timezone,
                   checkForFormulas |-> config.checkForFormulas,
                   maxSizeBytes |-> config.maxSizeBytes,
                   scroll |-> config.scroll]]

\* the argument of generateCsv({...})
GenerateCsvArgs(fm, us) ==
    [called |-> TRUE, cancellationToken |-> token, formatsMap |-> fm,
     settings |-> [separator |-> us.separator, quoteValues |-> us.quoteValues,
                   timezone |-> us.timezone,
                   checkForFormulas |-> config.checkForFormulas,
                   maxSizeBytes |-> config.maxSizeBytes,
                   scroll |-> config.scroll]]

\* what generateCsv may resolve with
CsvResults == [content : {<<"a,b\n1,2\n">>}, maxSizeReached : BOOLEAN,
               size : {8}, csvContainsFormulas : {FALSE}]

NoResult == [returned |-> FALSE, content_type |-> "", content |-> <<>>,
             max_size_reached |-> FALSE, size |-> 0, csv_contains_formulas |-> FALSE]

\* ---- the state after executeJobFactory has run ----

InitJob ==
    /\ config \in Configs
    /\ pc = "idle"
    /\ job = NoJob
    /\ token = NoToken
    /\ cancelled = {}
    /\ cancelledAt = ""
    /\ log = <<>>
    /\ trace = <<>>
    /\ fakeRequest = NoRequest
    /\ reads = [r \in ReadNames |-> Unstarted]
    /\ settleOrder = <<>>
    /\ formatsMapP = [status |-> "unstarted", value |-> <<>>]
    /\ uiSettingsP = [status |-> "unstarted", value |-> NoSettings]
    /\ csvArgs = NoCsvArgs
    /\ error = NoError
    /\ result = NoResult

\* executeJob rejects with err
Reject(err) ==
    /\ pc' = "rejected"
    /\ error' = err

\* the worker calls executeJob(jobId, job, cancellationToken), with a token
\* that may have been cancelled already; it runs up to
\* await reporting.getElasticsearchService()
ExecuteJob(j, t, alreadyCancelled) ==
    /\ pc = "idle"
    /\ job' = j
    /\ token' = t
    /\ cancelled' = IF alreadyCancelled THEN {t} ELSE {}
    /\ cancelledAt' = IF alreadyCancelled THEN "before" ELSE ""
    /\ trace' = Append(trace, "getElasticsearchService")
    /\ pc' = "awaitElasticsearch"
    /\ UNCHANGED <<config, log, fakeRequest, reads, settleOrder, formatsMapP,
                   uiSettingsP, csvArgs, error, result>>

\* the service is there: executeJob destructures the job and calls
\* decryptHeaders, which runs up to await crypto.decrypt(headers) or throws
ElasticsearchServiceResolves ==
    /\ pc = "awaitElasticsearch"
    /\ IF ~HeadersAreString(job.headers)
       THEN /\ log' = Append(log, [level |-> "error", msg |-> MissingHeadersError])
            /\ trace' = trace \o <<"elasticsearchService", "decryptHeaders:failed">>
            /\ Reject(FailedToDecrypt(MissingHeadersError))
       ELSE /\ trace' = trace \o <<"elasticsearchService", "crypto.decrypt">>
            /\ pc' = "awaitDecrypt"
            /\ UNCHANGED <<log, error>>
    /\ UNCHANGED <<config, job, token, cancelled, cancelledAt, fakeRequest, reads,
                   settleOrder, formatsMapP, uiSettingsP, csvArgs, result>>

ElasticsearchServiceRejects ==
    /\ pc = "awaitElasticsearch"
    /\ Reject(<<"getElasticsearchService failed">>)
    /\ UNCHANGED <<config, job, token, cancelled, cancelledAt, log, trace, fakeRequest,
                   reads, settleOrder, formatsMapP, uiSettingsP, csvArgs, result>>

\* crypto.decrypt resolves: the request is built, the scoped client taken and
\* reporting.getSavedObjectsClient(fakeRequest) awaited
DecryptResolves ==
    /\ pc = "awaitDecrypt"
    /\ fakeRequest' = [built |-> TRUE, headers |-> Decrypted(job.headers),
                       getBasePath |-> getBasePath(job.basePath, config.serverBasePath)]
    /\ trace' = trace \o <<"decryptHeaders:resolved", "KibanaRequest.from", "asScoped",
                           "getSavedObjectsClient">>
    /\ pc' = "awaitSavedObjectsClient"
    /\ UNCHANGED <<config, job, token, cancelled, cancelledAt, log, reads, settleOrder,
                   formatsMapP, uiSettingsP, csvArgs, error, result>>

\* crypto.decrypt rejects: the catch block logs and throws the wrapped error
DecryptRejects(err) ==
    /\ pc = "awaitDecrypt"
    /\ log' = Append(log, [level |-> "error", msg |-> err])
    /\ trace' = trace \o <<"crypto.decrypt:rejected", "decryptHeaders:failed">>
    /\ Reject(FailedToDecrypt(err))
    /\ UNCHANGED <<config, job, token, cancelled, cancelledAt, fakeRequest, reads,
                   settleOrder, formatsMapP, uiSettingsP, csvArgs, result>>

SavedObjectsClientResolves ==
    /\ pc = "awaitSavedObjectsClient"
    /\ trace' = trace \o <<"savedObjectsClient", "getUiSettingsServiceFactory">>
    /\ pc' = "awaitUiSettingsClient"
    /\ UNCHANGED <<config, job, token, cancelled, cancelledAt, log, fakeRequest, reads,
                   settleOrder, formatsMapP, uiSettingsP, csvArgs, error, result>>

SavedObjectsClientRejects ==
    /\ pc = "awaitSavedObjectsClient"
    /\ Reject(<<"getSavedObjectsClient failed">>)
    /\ UNCHANGED <<config, job, token, cancelled, cancelledAt, log, trace, fakeRequest,
                   reads, settleOrder, formatsMapP, uiSettingsP, csvArgs, result>>

\* getFormatsMap(uiSettingsClient) and getUiSettings(uiSettingsClient) are both
\* called, each up to its await, before Promise.all is awaited: the four reads
\* are under way
StartReads == [r \in ReadNames |-> Pending]

UiSettingsClientResolves ==
    /\ pc = "awaitUiSettingsClient"
    /\ reads' = StartReads
    /\ formatsMapP' = [status |-> "pending", value |-> <<>>]
    /\ uiSettingsP' = [status |-> "pending", value |-> NoSettings]
    /\ trace' = trace \o <<"uiSettingsClient", "fieldFormatServiceFactory",
                           "get csv:separator", "get csv:quoteValues",
                           "get dateFormat:tz">>
    /\ pc' = "awaitAll"
    /\ UNCHANGED <<config, job, token, cancelled, cancelledAt, log, fakeRequest,
                   settleOrder, csvArgs, error, result>>

UiSettingsClientRejects ==
    /\ pc = "awaitUiSettingsClient"
    /\ Reject(<<"getUiSettingsServiceFactory failed">>)
    /\ UNCHANGED <<config, job, token, cancelled, cancelledAt, log, trace, fakeRequest,
                   reads, settleOrder, formatsMapP, uiSettingsP, csvArgs, result>>

\* the read r settles, with the value v when ok; whatever waits on it runs:
\* getFormatsMap or getUiSettings goes on, and executeJob when Promise.all
\* settles
ReadSettles(r, ok, v) ==
    /\ reads[r].status = "pending"
    /\ LET rd == [reads EXCEPT ![r] = [status |-> IF ok THEN "resolved" ELSE "rejected",
                                       value |-> v]]
           fm == IF r # "fieldFormats" THEN formatsMapP
                 ELSE IF ok
                 THEN [status |-> "resolved",
                       value |-> fieldFormatMapFactory(job.indexPatternSavedObject, v)]
                 ELSE [status |-> "rejected", value |-> <<>>]
           us == IF r \notin SettingReads \/ uiSettingsP.status # "pending"
                 THEN uiSettingsP
                 ELSE IF ~ok
                 THEN [status |-> "rejected", value |-> NoSettings]
                 ELSE IF \A x \in SettingReads : rd[x].status = "resolved"
                 THEN [status |-> "resolved", value |-> UiSettingsOf(rd)]
                 ELSE uiSettingsP
           fmNow == fm.status = "resolved" /\ formatsMapP.status # "resolved"
           usNow == us.status = "resolved" /\ uiSettingsP.status # "resolved"
           ev == (IF fmNow THEN <<"formatsMap">> ELSE <<>>) \o
                 (IF usNow THEN <<"uiSettings">> ELSE <<>>)
       IN  /\ reads' = rd
           /\ settleOrder' = Append(settleOrder, r)
           /\ formatsMapP' = fm
           /\ uiSettingsP' = us
           /\ log' = IF usNow /\ ShouldWarn(us.value.timezone)
                     THEN Append(log, [level |-> "warn", msg |-> BrowserTimezoneWarning])
                     ELSE log
           /\ IF pc = "awaitAll" /\ ~ok
              THEN /\ Reject(<<"read failed", r>>)
                   /\ trace' = trace \o ev
                   /\ UNCHANGED csvArgs
              ELSE IF pc = "awaitAll" /\ AllConfigResolved(fm, us)
              THEN /\ csvArgs' = GenerateCsvArgs(fm.value, us.value)
                   /\ trace' = trace \o ev \o <<"generateCsv">>
                   /\ pc' = "awaitCsv"
                   /\ UNCHANGED error
              ELSE /\ trace' = trace \o ev
                   /\ UNCHANGED <<pc, csvArgs, error>>
    /\ UNCHANGED <<config, job, token, cancelled, cancelledAt, fakeRequest, result>>

ReadResolves == \E r \in ReadNames : \E v \in ReadValues(r) : ReadSettles(r, TRUE, v)

ReadRejects == \E r \in ReadNames : ReadSettles(r, FALSE, "")

\* generateCsv resolves and executeJob returns its result object
GenerateCsvResolves(res) ==
    /\ pc = "awaitCsv"
    /\ result' = [returned |-> TRUE,
                  content_type |-> "text/csv",
                  content |-> (IF config.useByteOrderMarkEncoding
                               THEN <<CSV_BOM_CHARS>> ELSE <<>>) \o res.content,
                  max_size_reached |-> res.maxSizeReached,
                  size |-> res.size,
                  csv_contains_formulas |-> res.csvContainsFormulas]
    /\ trace' = trace \o <<"generateCsv:resolved", "return">>
    /\ pc' = "returned"
    /\ UNCHANGED <<config, job, token, cancelled, cancelledAt, log, fakeRequest, reads,
                   settleOrder, formatsMapP, uiSettingsP, csvArgs, error>>

GenerateCsvRejects ==
    /\ pc = "awaitCsv"
    /\ Reject(<<"generateCsv failed">>)
    /\ UNCHANGED <<config, job, token, cancelled, cancelledAt, log, trace, fakeRequest,
                   reads, settleOrder, formatsMapP, uiSettingsP, csvArgs, result>>

\* somebody cancels the token of the running call; executeJob is not told
Cancel ==
    /\ token \notin cancelled
    /\ pc \notin {"idle", "returned", "rejected"}
    /\ cancelled' = cancelled \cup {token}
    /\ cancelledAt' = pc
    /\ UNCHANGED <<config, pc, job, token, log, trace, fakeRequest, reads, settleOrder,
                   formatsMapP, uiSettingsP, csvArgs, error, result>>

\* a selector that has not been called yet
NotCalled(empty) == [called |-> FALSE, value |-> empty]

\* the alert list before any selector is called
InitLocation ==
    /\ uiParams = NotCalled([x \in {} |-> <<>>])
    /\ apiParams = NotCalled(apiQueryParams(NoLocation))

\* the executor at rest, with one configuration
JobAtRest ==
    /\ InitJob
    /\ config = [serverBasePath |-> "", useByteOrderMarkEncoding |-> FALSE,
                 checkForFormulas |-> TRUE, maxSizeBytes |-> "10mb", scroll |-> "30s"]

InitSel ==
    /\ JobAtRest
    /\ location \in {NoLocation} \cup {[present |-> TRUE, search |-> s] : s \in Searches}
    /\ uiParams = NotCalled([x \in {} |-> <<>>])
    /\ apiParams = NotCalled(apiQueryParams(NoLocation))

\* a view calls uiQueryParams(state)
SelectUiQueryParams ==
    /\ ~uiParams.called
    /\ uiParams' = [called |-> TRUE, value |-> uiQueryParams(location)]
    /\ UNCHANGED <<location, apiParams, jobVars>>

\* the alert list middleware calls apiQueryParams(state)
SelectApiQueryParams ==
    /\ ~apiParams.called
    /\ apiParams' = [called |-> TRUE, value |-> apiQueryParams(location)]
    /\ UNCHANGED <<location, uiParams, jobVars>>

NextSel == SelectUiQueryParams \/ SelectApiQueryParams

SpecSel == InitSel /\ [][NextSel]_vars

Init ==
    /\ InitJob
    /\ location = NoLocation
    /\ InitLocation

Next ==
    \/ \E j \in Jobs, t \in Tokens, c \in BOOLEAN : ExecuteJob(j, t, c) /\ UNCHANGED selVars
    \/ ElasticsearchServiceResolves /\ UNCHANGED selVars
    \/ ElasticsearchServiceRejects /\ UNCHANGED selVars
    \/ DecryptResolves /\ UNCHANGED selVars
    \/ \E err \in DecryptErrors : DecryptRejects(err) /\ UNCHANGED selVars
    \/ SavedObjectsClientResolves /\ UNCHANGED selVars
    \/ SavedObjectsClientRejects /\ UNCHANGED selVars
    \/ UiSettingsClientResolves /\ UNCHANGED selVars
    \/ UiSettingsClientRejects /\ UNCHANGED selVars
    \/ ReadResolves /\ UNCHANGED selVars
    \/ ReadRejects /\ UNCHANGED selVars
    \/ \E res \in CsvResults : GenerateCsvResolves(res) /\ UNCHANGED selVars
    \/ GenerateCsvRejects /\ UNCHANGED selVars
    \/ Cancel /\ UNCHANGED selVars

Spec == Init /\ [][Next]_vars

(***************************************************************************)
(* Properties                                                              *)
(***************************************************************************)

InTrace(e) == \E i \in 1..Len(trace) : trace[i] = e

LogsAt(level) == SelectSeq(log, LAMBDA entry : entry.level = level)

\* the steps of a run that only follow a successful decryption
AfterDecryption == {"KibanaRequest.from", "asScoped", "getSavedObjectsClient",
                    "savedObjectsClient", "getUiSettingsServiceFactory",
                    "uiSettingsClient", "fieldFormatServiceFactory",
                    "get csv:separator", "get csv:quoteValues", "get dateFormat:tz",
                    "generateCsv", "return"}

\* the run failed in decryptHeaders with the original error orig
DecryptionFailedWith(orig) ==
    /\ pc = "rejected"
    /\ LogsAt("error") = <<[level |-> "error", msg |-> orig]>>
    /\ error = <<"Failed to decrypt report job data. Please ensure that ",
                 "xpack.reporting.encryptionKey",
                 " is set and re-generate this report. ", "Error: ">> \o orig
    /\ \A e \in AfterDecryption : ~InTrace(e)
    /\ ~fakeRequest.built
    /\ ~csvArgs.called
    /\ ~result.returned

RunOver == pc \in {"returned", "rejected"}

Stages == <<{"decryptHeaders:resolved"},
            {"KibanaRequest.from", "asScoped"},
            {"savedObjectsClient"},
            {"uiSettingsClient"},
            {"formatsMap", "uiSettings"},
            {"generateCsv"},
            {"generateCsv:resolved"},
            {"return"}>>

Staged == UNION {Stages[k] : k \in 1..Len(Stages)}

\* the places of the step e in the trace
Places(e) == {i \in 1..Len(trace) : trace[i] = e}

\* C2: the steps of a run occur in the order decryption, request and scoped
\* client, saved-objects client, UI-settings client, formats map and UI
\* settings, generateCsv: a step is taken only after every step of the stage
\* before, and at most once, and a result is returned only after generateCsv
\* has resolved.
C2_StepOrder ==
    /\ \A e \in Staged : Cardinality(Places(e)) <= 1
    /\ \A k \in 2..Len(Stages) : \A e2 \in Stages[k] : \A j \in Places(e2) :
           \A e1 \in Stages[k - 1] : \E i \in 1..(j - 1) : trace[i] = e1
    /\ result.returned => InTrace("generateCsv:resolved")
    /\ csvArgs.called <=> InTrace("generateCsv")

C2_Witness == result.returned /\ pc = "returned" /\ \A e \in Staged : InTrace(e)

\* ---- the query string, read by position ----

\* the positions of location.search where a segment naming k begins
GivenAt(s, k) ==
    {p \in 2..Len(s) :
        /\ p = 2 \/ s[p - 1] = "&"
        /\ UnescapeToken(s[p]) = k
        /\ p = Len(s) \/ s[p + 1] \in {"&", "="}}

\* the value given by the segment that begins at p
ValueAt(s, p) ==
    IF p = Len(s) \/ s[p + 1] = "&" THEN <<>>
    ELSE LET ends == {e \in (p + 2)..(Len(s) + 1) :
                         /\ e = Len(s) + 1 \/ s[e] = "&"
                         /\ \A x \in (p + 2)..(e - 1) : s[x] # "&"}
             e == CHOOSE x \in ends : TRUE
         IN [i \in 1..(e - p - 2) |-> UnescapeToken(s[p + 1 + i])]

Last(S) == CHOOSE p \in S : \A q \in S : q <= p

First(S) == CHOOSE p \in S : \A q \in S : p <= q

LastReadPending ==
    /\ pc = "awaitAll"
    /\ Cardinality({r \in ReadNames : reads[r].status = "pending"}) = 1
    /\ \A r \in ReadNames : reads[r].status \in {"pending", "resolved"}

\* C5: the token executeJob received is the one handed to generateCsv, and a
\* token cancelled before the call or at any step of it leaves every step up
\* to and including the call of generateCsv possible.
C5_TokenPassedThrough ==
    /\ csvArgs.called => csvArgs.cancellationToken = token /\ token \in Tokens
    /\ pc = "idle" => \A j \in Jobs, t \in Tokens : ENABLED ExecuteJob(j, t, TRUE)
    /\ (pc # "idle" /\ token \in cancelled) =>
           /\ pc = "awaitElasticsearch" => ENABLED ElasticsearchServiceResolves
           /\ pc = "awaitDecrypt" => ENABLED DecryptResolves
           /\ pc = "awaitSavedObjectsClient" => ENABLED SavedObjectsClientResolves
           /\ pc = "awaitUiSettingsClient" => ENABLED UiSettingsClientResolves
           /\ pc = "awaitAll" =>
                  \A r \in ReadNames :
                      reads[r].status = "pending" =>
                          \A v \in ReadValues(r) : ENABLED ReadSettles(r, TRUE, v)
           /\ LastReadPending => ENABLED (ReadResolves /\ csvArgs'.called)

C5_Witness ==
    /\ csvArgs.called
    /\ cancelledAt = "before"
    /\ csvArgs.cancellationToken = token
    /\ token \in cancelled

\* C6: the four reads are all under way before executeJob waits for any of
\* them; whatever the order they complete in, generateCsv is handed the
\* result of the csv:separator read as separator, of the csv:quoteValues read
\* as quoteValues and of the dateFormat:tz read as timezone; and once a read
\* has rejected executeJob has rejected and generateCsv is never invoked.
C6_ParallelReads ==
    /\ (pc = "awaitAll" \/ \E r \in ReadNames : reads[r].status \in {"resolved", "rejected"})
           => \A r \in ReadNames : reads[r].status # "unstarted"
    /\ csvArgs.called =>
           /\ \A r \in ReadNames : reads[r].status = "resolved"
           /\ csvArgs.settings.separator = reads["csv:separator"].value
           /\ csvArgs.settings.quoteValues = reads["csv:quoteValues"].value
           /\ csvArgs.settings.timezone = reads["dateFormat:tz"].value
           /\ csvArgs.formatsMap = <<job.indexPatternSavedObject, reads["fieldFormats"].value>>
    /\ (\E r \in ReadNames : reads[r].status = "rejected")
           => pc = "rejected" /\ ~csvArgs.called /\ ~InTrace("generateCsv")

C6_Witness ==
    /\ csvArgs.called
    /\ settleOrder = <<"dateFormat:tz", "fieldFormats", "csv:quoteValues", "csv:separator">>
    /\ csvArgs.settings.timezone = "America/New_York"

\* C7: getBasePath of the synthetic request gives the job's basePath when
\* that is not empty and the server's base path when the job's is missing or
\* the empty string.
C7_BasePath ==
    fakeRequest.built =>
        /\ job.basePath \notin {UndefinedStr, ""} => fakeRequest.getBasePath = job.basePath
        /\ job.basePath \in {UndefinedStr, ""} =>
               fakeRequest.getBasePath = config.serverBasePath

C7_Witness ==
    /\ fakeRequest.built
    /\ job.basePath = ""
    /\ config.serverBasePath = "/kbn"
    /\ fakeRequest.getBasePath = "/kbn"

AllSettingsSettled ==
    \A r \in SettingReads : reads[r].status \in {"resolved", "rejected"}

AllSettingsResolved == \A r \in SettingReads : reads[r].status = "resolved"

====
